---- MODULE Spec2Model ----
(***************************************************************************)
(* A model of bank_parser_gemini: GeminiBankParser (parser.py) and the     *)
(* command-line entry point main (__main__.py).                            *)
(*                                                                         *)
(* Text is modelled as a sequence of one-character strings; a model        *)
(* response is modelled as a sequence of tokens (brackets, commas, prose   *)
(* words and complete JSON values).  Amounts are integers standing for the *)
(* exactly representable floats Python would produce.                      *)
(***************************************************************************)
EXTENDS Integers, Sequences, FiniteSets, TLC

VARIABLES
    GEMINI_AVAILABLE,     \* parser.py:30-35, module flag
    PDFPLUMBER_AVAILABLE, \* parser.py:22-27, module flag
    envKey,               \* os.environ['GEMINI_API_KEY'] (KeyNone when unset)
    pdfPages,             \* the pages of the readable document stmt.pdf
    genaiKey,             \* the process-wide credential set by genai.configure
    pc,                   \* per invocation: the next step
    entry,                \* per invocation: the public operation called
    args,                 \* per invocation: the arguments
    parserKey,            \* per invocation: the key its parser was constructed with
    content,              \* per invocation: extract_content's return value
    prompt,               \* per invocation: _create_prompt's return value
    reply,                \* per invocation: what the model wrote, in parts
    response,             \* per invocation: response.text of the model call
    callKey,              \* per invocation: credential in effect at the model call
    result,               \* per invocation: return value or raised exception
    warnings,             \* per invocation: number of logger.warning calls
    trace,                \* per invocation: the stages run, in order
    exitCode,             \* per invocation: sys.exit status of main
    summary,              \* what get_summary returned (<<>> before any call)
    files,                \* the output files, by path
    exported              \* the outcome of the last export call

vars == <<GEMINI_AVAILABLE, PDFPLUMBER_AVAILABLE, envKey, pdfPages, genaiKey,
          pc, entry, args, parserKey, content, prompt, reply, response, callKey, result,
          warnings, trace, exitCode, summary, files, exported>>

-----------------------------------------------------------------------------
(* Bounds of the model *)

MaxTxns == 3      \* elements in a response array / transactions in a list
MaxTables == 4    \* tables extracted from a document
MaxExtra == 2     \* characters of document text beyond the prompt's cutoff

-----------------------------------------------------------------------------
(* Python and JSON values *)

\* Python's None, also what JSON null decodes to
PyNone == [t |-> "null"]

\* a dict key that is missing
Absent == [t |-> "absent"]

JNum(n) == [t |-> "num", n |-> n]

JStr(s) == [t |-> "str", s |-> s]

JArr(items) == [t |-> "arr", items |-> items]

JObj(f) == [t |-> "obj", f |-> f]

Digits == {"0", "1", "2", "3", "4", "5", "6", "7", "8", "9"}

DigitVal(c) == CASE c = "0" -> 0 [] c = "1" -> 1 [] c = "2" -> 2 [] c = "3" -> 3
                 [] c = "4" -> 4 [] c = "5" -> 5 [] c = "6" -> 6 [] c = "7" -> 7
                 [] c = "8" -> 8 [] c = "9" -> 9

RECURSIVE DecimalVal(_)
DecimalVal(s) == IF s = <<>> THEN 0
                 ELSE 10 * DecimalVal(SubSeq(s, 1, Len(s) - 1)) + DigitVal(s[Len(s)])

\* An outcome of a Python expression: a value, or the exception it raises
Ok(v) == [exc |-> "", val |-> v]

Raise(e) == [exc |-> e, val |-> PyNone]

\* float(str) over the alphabet digits, "-" and letters: an optional sign and
\* at least one digit; anything else raises ValueError
ParseFloat(s) ==
    LET neg  == Len(s) > 0 /\ s[1] = "-"
        body == IF neg THEN Tail(s) ELSE s
    IN  IF body # <<>> /\ \A i \in 1..Len(body) : body[i] \in Digits
        THEN Ok(IF neg THEN 0 - DecimalVal(body) ELSE DecimalVal(body))
        ELSE Raise("ValueError")

\* float(v): numbers convert, strings are parsed, None, lists and dicts raise
\* TypeError
PyFloat(v) ==
    CASE v.t = "num" -> Ok(v.n)
      [] v.t = "str" -> ParseFloat(v.s)
      [] OTHER       -> Raise("TypeError")

\* bool(v)
Truthy(v) ==
    CASE v.t = "num" -> v.n # 0
      [] v.t = "str" -> v.s # <<>>
      [] v.t = "arr" -> v.items # <<>>
      [] v.t = "obj" -> \E k \in DOMAIN v.f : v.f[k] # Absent
      [] OTHER       -> FALSE

FieldNames == {"date", "particulars", "amount", "transaction_type", "balance",
               "reference_no", "value_date", "narration", "cheque_no"}

\* dict.get(key, default)
Get(d, key, default) == IF d.f[key] = Absent THEN default ELSE d.f[key]

S_DR == <<"D", "R">>

S_CR == <<"C", "R">>

S_DEBIT == <<"D", "E", "B", "I", "T">>

S_CREDIT == <<"C", "R", "E", "D", "I", "T">>

S_dr == <<"d", "r">>

S_UPI == <<"U", "P", "I">>

-----------------------------------------------------------------------------
(* Transaction and the coercion of one response element, parser.py:38-49,     *)
(* 127-137                                                                 *)

Transaction(date, particulars, amount, transaction_type, balance, reference_no, value_date, narration, cheque_no) ==
    [date |-> date, particulars |-> particulars, amount |-> amount,
     transaction_type |-> transaction_type, balance |-> balance,
     reference_no |-> reference_no, value_date |-> value_date,
     narration |-> narration, cheque_no |-> cheque_no]

\* a balance coerced whenever the key is present, truthy or not
CoerceBalance_IfPresent(txn_data) ==
    IF Get(txn_data, "balance", PyNone) # PyNone
    THEN LET b == PyFloat(Get(txn_data, "balance", JNum(0)))
         IN  IF b.exc = "" THEN Ok(JNum(b.val)) ELSE b
    ELSE Ok(PyNone)

\* balance=float(txn_data.get('balance', 0)) if txn_data.get('balance') else None
CoerceBalance(txn_data) ==
    IF Truthy(Get(txn_data, "balance", PyNone))
    THEN LET b == PyFloat(Get(txn_data, "balance", JNum(0)))
         IN  IF b.exc = "" THEN Ok(JNum(b.val)) ELSE b
    ELSE Ok(PyNone)

\* Transaction(date=txn_data.get('date', ''), ...): the keyword arguments are
\* evaluated in order, the first exception wins; an element that is not a
\* dict has no .get
BuildTransaction(txn_data) ==
    IF txn_data.t # "obj" THEN Raise("AttributeError")
    ELSE LET amount  == PyFloat(Get(txn_data, "amount", JNum(0)))
             balance == CoerceBalance(txn_data)
         IN  IF amount.exc # "" THEN amount
             ELSE IF balance.exc # "" THEN balance
             ELSE Ok(Transaction(Get(txn_data, "date", JStr(<<>>)),
                                 Get(txn_data, "particulars", JStr(<<>>)),
                                 amount.val,
                                 Get(txn_data, "transaction_type", JStr(S_DR)),
                                 balance.val,
                                 Get(txn_data, "reference_no", PyNone),
                                 Get(txn_data, "value_date", PyNone),
                                 Get(txn_data, "narration", PyNone),
                                 Get(txn_data, "cheque_no", PyNone)))

\* except (ValueError, KeyError)
SkippedErrors == {"ValueError", "KeyError"}

\* the loop over transactions_data: [exc, txns, warned]
RECURSIVE CoerceAll(_, _, _)
CoerceAll(items, txns, warned) ==
    IF items = <<>> THEN [exc |-> "", txns |-> txns, warned |-> warned]
    ELSE LET t == BuildTransaction(Head(items))
         IN  IF t.exc = "" THEN CoerceAll(Tail(items), Append(txns, t.val), warned)
             ELSE IF t.exc \in SkippedErrors
                  THEN CoerceAll(Tail(items), txns, warned + 1)
             ELSE [exc |-> t.exc, txns |-> <<>>, warned |-> warned]

\* `for txn_data in transactions_data`: a list yields its items, a dict its
\* keys, a string its characters; a number or None is not iterable
Iterate(v) ==
    CASE v.t = "arr" -> Ok(v.items)
      [] v.t = "obj" -> Ok([i \in 1..Cardinality({k \in DOMAIN v.f : v.f[k] # Absent})
                               |-> JStr(<<"k">>)])
      [] v.t = "str" -> Ok([i \in 1..Len(v.s) |-> JStr(<<v.s[i]>>)])
      [] OTHER       -> Raise("TypeError")

-----------------------------------------------------------------------------
(* The response text as tokens, re.search and json.loads, parser.py:117-122 *)

LB == [k |-> "["]

RB == [k |-> "]"]

COMMA == [k |-> ","]

\* a prose word holding no bracket
WORD == [k |-> "w"]

\* the text of one JSON scalar or object
V(v) == [k |-> "v", v |-> v]

\* the fields of an object whose text holds brackets (list values)
BracketFields(v) ==
    IF v.t = "obj" THEN {k \in DOMAIN v.f : v.f[k].t = "arr"} ELSE {}

HasOpen(tok) == tok.k = "[" \/ (tok.k = "v" /\ BracketFields(tok.v) # {})

HasClose(tok) == tok.k = "]" \/ (tok.k = "v" /\ BracketFields(tok.v) # {})

ParseFail == [ok |-> FALSE, val |-> PyNone, pos |-> 0]

RECURSIVE ParseValue(_, _), ParseItems(_, _, _)
ParseValue(toks, i) ==
    IF i > Len(toks) THEN ParseFail
    ELSE CASE toks[i].k = "v" -> [ok |-> TRUE, val |-> toks[i].v, pos |-> i + 1]
           [] toks[i].k = "[" ->
                IF i + 1 <= Len(toks) /\ toks[i + 1].k = "]"
                THEN [ok |-> TRUE, val |-> JArr(<<>>), pos |-> i + 2]
                ELSE ParseItems(toks, i + 1, <<>>)
           [] OTHER -> ParseFail

ParseItems(toks, i, acc) ==
    LET r == ParseValue(toks, i)
    IN  IF ~r.ok \/ r.pos > Len(toks) THEN ParseFail
        ELSE CASE toks[r.pos].k = "," -> ParseItems(toks, r.pos + 1, Append(acc, r.val))
               [] toks[r.pos].k = "]" ->
                    [ok |-> TRUE, val |-> JArr(Append(acc, r.val)), pos |-> r.pos + 1]
               [] OTHER -> ParseFail

\* json.loads of a token sequence: one complete value and nothing else
json_loads(toks) ==
    LET r == ParseValue(toks, 1)
    IN  IF r.ok /\ r.pos = Len(toks) + 1 THEN Ok(r.val) ELSE Raise("JSONDecodeError")

\* index of the first token holding '[' (0 when there is none)
FirstOpen(toks) ==
    IF \E i \in 1..Len(toks) : HasOpen(toks[i])
    THEN CHOOSE i \in 1..Len(toks) :
            HasOpen(toks[i]) /\ \A j \in 1..(i - 1) : ~HasOpen(toks[j])
    ELSE 0

\* index of the last token holding ']' (0 when there is none)
LastClose(toks) ==
    IF \E i \in 1..Len(toks) : HasClose(toks[i])
    THEN CHOOSE i \in 1..Len(toks) :
            HasClose(toks[i]) /\ \A j \in (i + 1)..Len(toks) : ~HasClose(toks[j])
    ELSE 0

\* json_match = re.search(r'\[.*\]', response_text, re.DOTALL): greedy, from
\* the first '[' to the last ']' after it
HasMatch(toks) ==
    LET i == FirstOpen(toks)
        j == LastClose(toks)
    IN  i # 0 /\ j # 0 /\ (i < j \/ (i = j /\ toks[i].k = "v"))

\* a parser that decodes the whole response text
DecodeResponse_WholeText(toks) == json_loads(toks)

\* json.loads(json_match.group(0) if json_match else response_text)
DecodeResponse(toks) ==
    LET i == FirstOpen(toks)
        j == LastClose(toks)
    IN  IF ~HasMatch(toks) THEN json_loads(toks)
        ELSE IF toks[i].k = "[" /\ toks[j].k = "]" THEN json_loads(SubSeq(toks, i, j))
        ELSE IF i = j /\ Cardinality(BracketFields(toks[i].v)) = 1
             \* the match is the one list value inside the object
             THEN Ok(toks[i].v.f[CHOOSE k \in BracketFields(toks[i].v) : TRUE])
        \* the match starts or ends inside an object's text
        ELSE Raise("JSONDecodeError")

Return(v) == [kind |-> "return", value |-> v, exc |-> "", cause |-> ""]

Raised(e, cause) == [kind |-> "raise", value |-> <<>>, exc |-> e, cause |-> cause]

NoResult == [kind |-> "none", value |-> <<>>, exc |-> "", cause |-> ""]

\* parser.py:117-146: the outcome of parse_statement once the model has
\* answered with response_text: [res, warned]
ParseResponseText(toks) ==
    LET data  == DecodeResponse(toks)
        items == IF data.exc = "" THEN Iterate(data.val) ELSE data
        out   == IF items.exc = "" THEN CoerceAll(items.val, <<>>, 0)
                 ELSE [exc |-> items.exc, txns |-> <<>>, warned |-> 0]
    IN  IF out.exc = ""
        THEN [res |-> Return(out.txns), warned |-> out.warned]
        ELSE [res |-> Raised("BankParserError", out.exc), warned |-> out.warned]

-----------------------------------------------------------------------------
(* Credentials and construction, parser.py:66-76 *)

\* api_key=None, and an unset environment variable
KeyNone == "<None>"

\* `not api_key`
Falsy(k) == k \in {KeyNone, ""}

\* a constructor that prefers the environment variable
ConstructorOutcome_EnvFirst(available, api_key, env) ==
    IF ~available THEN [exc |-> "ImportError", key |-> KeyNone]
    ELSE IF ~Falsy(env) THEN [exc |-> "", key |-> env]
    ELSE IF ~Falsy(api_key) THEN [exc |-> "", key |-> api_key]
    ELSE [exc |-> "ValueError", key |-> KeyNone]

\* GeminiBankParser.__init__: the exception raised, or the key handed to
\* genai.configure
ConstructorOutcome(available, api_key, env) ==
    IF ~available THEN [exc |-> "ImportError", key |-> KeyNone]
    ELSE IF ~Falsy(api_key) THEN [exc |-> "", key |-> api_key]
    ELSE IF ~Falsy(env) THEN [exc |-> "", key |-> env]
    ELSE [exc |-> "ValueError", key |-> KeyNone]

-----------------------------------------------------------------------------
(* Documents and extract_content, parser.py:78-108 *)

\* text_content[:8000]
TextLimit == 8000

\* tables_content[:3]
TableLimit == 3

\* a slice that stops one short
Slice_OneShort(s, n) == IF Len(s) < n THEN s ELSE SubSeq(s, 1, n - 1)

\* s[:n]
Slice(s, n) == IF Len(s) <= n THEN s ELSE SubSeq(s, 1, n)

\* table grids: rows of cells, a cell a string or None
GridA == JArr(<<JArr(<<JStr(<<"a">>), PyNone>>)>>)

GridB == JArr(<<JArr(<<JStr(<<"b">>)>>)>>)

\* the pages of a document: page_text (<<>> when extract_text() gives None
\* or '') and the extracted tables
StmtPages == << [text |-> <<"a", "b">>, tables |-> <<GridA>>],
                [text |-> <<>>,         tables |-> <<>>] >>

Paths == {"missing.pdf", "corrupt.pdf", "stmt.pdf"}

\* Path(file_path).exists()
Exists(path) == path \in {"corrupt.pdf", "stmt.pdf"}

\* whether pdfplumber can open and read the file
Readable(path) == path = "stmt.pdf"

TableEntry(page, table, data) ==
    JObj([page |-> JNum(page), table |-> JNum(table), data |-> data])

\* the loop over pdf.pages, parser.py:92-104
RECURSIVE ExtractPages(_, _, _, _)
ExtractPages(pages, page_num, text_content, tables_content) ==
    IF page_num > Len(pages)
    THEN [text |-> text_content, tables |-> tables_content]
    ELSE LET page == pages[page_num]
         IN  ExtractPages(pages, page_num + 1,
                 IF page.text # <<>> THEN text_content \o page.text \o <<"\n">>
                 ELSE text_content,
                 tables_content \o [n \in 1..Len(page.tables)
                                       |-> TableEntry(page_num, n, page.tables[n])])

NoContent == [text |-> <<>>, tables |-> <<>>]

Out(exc, cause, value) == [exc |-> exc, cause |-> cause, value |-> value]

\* extract_content(file_path)
extract_content(pdfplumber, path, pdf_pages) ==
    IF ~pdfplumber THEN Out("ImportError", "", NoContent)
    ELSE IF ~Exists(path) THEN Out("FileNotFoundError", "", NoContent)
    ELSE IF ~Readable(path) THEN Out("BankParserError", "PDFSyntaxError", NoContent)
    ELSE Out("", "", ExtractPages(pdf_pages, 1, <<>>, <<>>))

-----------------------------------------------------------------------------
(* _create_prompt, parser.py:148-183 *)

RECURSIVE JoinValues(_)
JoinValues(vs) ==
    IF vs = <<>> THEN <<>>
    ELSE IF Len(vs) = 1 THEN <<V(vs[1])>>
    ELSE <<V(vs[1]), COMMA>> \o JoinValues(Tail(vs))

\* json.dumps of a list of dicts, as tokens
json_dumps(vs) == <<LB>> \o JoinValues(vs) \o <<RB>>

NoTablesFound == <<WORD, WORD, WORD>>

NoPrompt == [template |-> "", text |-> <<>>, tables |-> <<>>]

\* the f-string: the fixed template with its two holes filled
create_prompt(c) ==
    [template |-> "financial data extraction expert",
     text     |-> Slice(c.text, TextLimit),
     tables   |-> IF c.tables # <<>> THEN json_dumps(Slice(c.tables, TableLimit))
                  ELSE NoTablesFound]

-----------------------------------------------------------------------------
(* get_summary, parser.py:223-236 *)

\* sum(txn.amount for txn in transactions if txn.transaction_type in types)
RECURSIVE SumAmounts(_, _)
SumAmounts(transactions, types) ==
    IF transactions = <<>> THEN 0
    ELSE (IF Head(transactions).transaction_type \in types
          THEN Head(transactions).amount ELSE 0)
         + SumAmounts(Tail(transactions), types)

\* a summary that also takes lower-case "dr" for a debit
DebitTypes_AnyCase == {JStr(S_DR), JStr(S_DEBIT), JStr(S_dr)}

DebitTypes == {JStr(S_DR), JStr(S_DEBIT)}

CreditTypes == {JStr(S_CR), JStr(S_CREDIT)}

get_summary(transactions) ==
    IF transactions = <<>>
    THEN [total_transactions |-> 0, total_debit |-> 0, total_credit |-> 0,
          net_amount |-> 0]
    ELSE LET total_debit  == SumAmounts(transactions, DebitTypes)
             total_credit == SumAmounts(transactions, CreditTypes)
         IN  [total_transactions |-> Len(transactions),
              total_debit |-> total_debit, total_credit |-> total_credit,
              net_amount |-> total_credit - total_debit]

-----------------------------------------------------------------------------
(* export_to_csv and export_to_json, parser.py:185-221 *)

fieldnames == <<"date", "particulars", "amount", "transaction_type", "balance",
                "reference_no", "value_date", "narration", "cheque_no">>

DigitChar(d) == CASE d = 0 -> "0" [] d = 1 -> "1" [] d = 2 -> "2" [] d = 3 -> "3"
                  [] d = 4 -> "4" [] d = 5 -> "5" [] d = 6 -> "6" [] d = 7 -> "7"
                  [] d = 8 -> "8" [] d = 9 -> "9"

RECURSIVE NatRepr(_)
NatRepr(n) == IF n < 10 THEN <<DigitChar(n)>>
              ELSE NatRepr(n \div 10) \o <<DigitChar(n % 10)>>

\* str(int)
IntRepr(n) == IF n < 0 THEN <<"-">> \o NatRepr(0 - n) ELSE NatRepr(n)

\* str(float) of an integral float
FloatRepr(n) == IntRepr(n) \o <<".", "0">>

\* what csv.DictWriter writes for one value: '' for None, str(value) otherwise
CsvCell(field, v) ==
    IF field = "amount" THEN FloatRepr(v)
    ELSE CASE v.t = "null" -> <<>>
           [] v.t = "str"  -> v.s
           [] v.t = "num"  -> IF field = "balance" THEN FloatRepr(v.n) ELSE IntRepr(v.n)

\* writer.writerow(txn.to_dict())
CsvRow(txn) == [i \in 1..Len(fieldnames) |-> CsvCell(fieldnames[i], txn[fieldnames[i]])]

\* an export that writes the header before it looks at the list
CsvRows_HeaderFirst(transactions) ==
    <<fieldnames>> \o [i \in 1..Len(transactions) |-> CsvRow(transactions[i])]

\* the rows export_to_csv leaves in the file it opened
CsvRows(transactions) ==
    IF transactions = <<>> THEN <<>>
    ELSE <<fieldnames>> \o [i \in 1..Len(transactions) |-> CsvRow(transactions[i])]

NoFile == [exists |-> FALSE, kind |-> "", rows |-> <<>>, data |-> <<>>]

CsvFile(transactions) ==
    [exists |-> TRUE, kind |-> "csv", rows |-> CsvRows(transactions), data |-> <<>>]

\* the envelope export_to_json dumps
JsonFile(transactions, now) ==
    [exists |-> TRUE, kind |-> "json", rows |-> <<>>,
     data |-> << [extracted_at |-> now, total_transactions |-> Len(transactions),
                  transactions |-> transactions] >>]

OutPaths == {"out.dat", "nodir/out.dat"}

\* whether open(output_file, 'w') succeeds
Writable(path) == path = "out.dat"

NoExport == [op |-> "", path |-> "", exc |-> "", cause |-> ""]

-----------------------------------------------------------------------------
(* The inputs: what the model may answer, the credentials, the arguments *)

Obj(date, amount, transaction_type, balance, reference_no) ==
    JObj([date |-> date, particulars |-> JStr(<<"p">>), amount |-> amount,
          transaction_type |-> transaction_type, balance |-> balance,
          reference_no |-> reference_no, value_date |-> Absent,
          narration |-> PyNone, cheque_no |-> Absent])

\* {"date": "1", "amount": 5, "transaction_type": "DR", "balance": 7, ...}
E1 == Obj(JStr(<<"1">>), JNum(5), JStr(S_DR), JNum(7), JStr(<<"r">>))

\* amount "12", balance 0
E2 == Obj(JStr(<<"2">>), JStr(<<"1", "2">>), JStr(S_CR), JNum(0), Absent)

\* amount "x": not a number
E3 == Obj(JStr(<<"3">>), JStr(<<"x">>), JStr(S_DR), JNum(7), Absent)

\* amount null
E4 == Obj(JStr(<<"4">>), PyNone, JStr(S_CR), Absent, Absent)

\* amount [1]
E5 == Obj(JStr(<<"5">>), JArr(<<JNum(1)>>), JStr(S_DR), Absent, Absent)

\* an element that is not an object
E6 == JNum(3)

\* no amount, no type, balance "x"
E7 == Obj(JStr(<<"7">>), Absent, Absent, JStr(<<"x">>), Absent)

\* amount "-4", balance ""
E8 == Obj(JStr(<<"8">>), JStr(<<"-", "4">>), JStr(S_dr), JStr(<<>>), Absent)

\* {}
E9 == JObj([k \in FieldNames |-> Absent])

Elements == {E1, E2, E3, E4, E5, E6, E7, E8, E9}

ElementSeqs == UNION {[1..n -> Elements] : n \in 0..MaxTxns}

\* prose around the array: words, and brackets of its own
ProseSeqs == {<<>>, <<WORD>>, <<LB>>, <<RB>>, <<WORD, RB>>, <<LB, WORD, RB>>}

\* A reply: prose, then the elements written as an array (shape "array"), as
\* an array cut off before its closing bracket ("cut") or with no brackets
\* at all ("bare"), then prose
Reply(lead, elements, trail, shape) ==
    [lead |-> lead, elements |-> elements, trail |-> trail, shape |-> shape]

NoReply == Reply(<<>>, <<>>, <<>>, "")

\* response.text.strip() of a reply
Text(r) ==
    r.lead
    \o (CASE r.shape = "array" -> json_dumps(r.elements)
          [] r.shape = "cut"   -> <<LB>> \o JoinValues(r.elements)
          [] OTHER             -> JoinValues(r.elements))
    \o r.trail

\* the replies of the end-to-end runs
PipelineReplies == {Reply(<<>>, <<E1, E2>>, <<>>, "array"),
                    Reply(<<WORD>>, <<E3, E1>>, <<WORD>>, "array"),
                    Reply(<<>>, <<E1, E4>>, <<>>, "array"),
                    Reply(<<WORD>>, <<>>, <<>>, "bare")}

ArgKeys == {KeyNone, "", "keyA", "keyB"}

EnvKeys == {KeyNone, "", "keyE"}

\* the api_key of an invocation that runs next to another
PipelineKeys == {KeyNone, "keyA", "keyB"}

Procs == {1, 2}

Entries == {"parse_bank_statement", "extract_content", "main"}

NoArgs == [pdf_file |-> "", api_key |-> KeyNone, argv_ok |-> TRUE,
           summary |-> FALSE, format |-> "json"]

-----------------------------------------------------------------------------
(* The state machine *)

InitLocals ==
    /\ pc = [p \in Procs |-> "idle"]
    /\ entry = [p \in Procs |-> ""]
    /\ args = [p \in Procs |-> NoArgs]
    /\ parserKey = [p \in Procs |-> KeyNone]
    /\ content = [p \in Procs |-> NoContent]
    /\ prompt = [p \in Procs |-> NoPrompt]
    /\ reply = [p \in Procs |-> NoReply]
    /\ response = [p \in Procs |-> <<>>]
    /\ callKey = [p \in Procs |-> KeyNone]
    /\ result = [p \in Procs |-> NoResult]
    /\ warnings = [p \in Procs |-> 0]
    /\ trace = [p \in Procs |-> <<>>]
    /\ exitCode = [p \in Procs |-> -1]

InitGlobals ==
    /\ GEMINI_AVAILABLE \in BOOLEAN
    /\ PDFPLUMBER_AVAILABLE \in BOOLEAN
    /\ envKey \in EnvKeys
    /\ pdfPages = StmtPages
    /\ genaiKey = KeyNone
    /\ summary = <<>>
    /\ files = [path \in OutPaths |-> NoFile]
    /\ exported = NoExport

Init == InitGlobals /\ InitLocals

globals == <<GEMINI_AVAILABLE, PDFPLUMBER_AVAILABLE, envKey, pdfPages>>

outputs == <<summary, files, exported>>

\* A public operation is called: parse_bank_statement(pdf_path, api_key),
\* GeminiBankParser(api_key).extract_content(file_path), or main() with the
\* command line (argv_ok: argparse accepts it)
\* no other invocation is under way: the calling program is single-threaded
Alone(p) == \A q \in Procs \ {p} : pc[q] = "idle"

StartCall(p) ==
    /\ pc[p] = "idle"
    /\ \E e \in Entries, path \in Paths, k \in ArgKeys, ok \in BOOLEAN,
          sm \in BOOLEAN, fmt \in {"json", "dict"} :
          /\ e # "main" => (ok /\ ~sm /\ fmt = "json")
          /\ entry' = [entry EXCEPT ![p] = e]
          /\ args' = [args EXCEPT ![p] = [pdf_file |-> path, api_key |-> k,
                                          argv_ok |-> ok, summary |-> sm,
                                          format |-> fmt]]
          /\ pc' = [pc EXCEPT ![p] = IF e = "main" THEN "parse_args" ELSE "init"]
    /\ UNCHANGED <<globals, outputs, genaiKey, parserKey, content, prompt, reply,
                   response, callKey, result, warnings, trace, exitCode>>

\* a call made by a single-threaded program
Call(p) == Alone(p) /\ StartCall(p)

\* __main__.py:17-24: parser.parse_args() leaves with status 2 on a command
\* line it rejects
MainParseArgs(p) ==
    /\ pc[p] = "parse_args"
    /\ IF args[p].argv_ok
       THEN pc' = [pc EXCEPT ![p] = "check_file"] /\ UNCHANGED exitCode
       ELSE pc' = [pc EXCEPT ![p] = "exited"] /\ exitCode' = [exitCode EXCEPT ![p] = 2]
    /\ UNCHANGED <<globals, outputs, genaiKey, entry, args, parserKey, content,
                   prompt, reply, response, callKey, result, warnings, trace>>

\* __main__.py:27-29
MainCheckFile(p) ==
    /\ pc[p] = "check_file"
    /\ IF Exists(args[p].pdf_file)
       THEN pc' = [pc EXCEPT ![p] = "init"] /\ UNCHANGED exitCode
       ELSE pc' = [pc EXCEPT ![p] = "exited"] /\ exitCode' = [exitCode EXCEPT ![p] = 1]
    /\ UNCHANGED <<globals, outputs, genaiKey, entry, args, parserKey, content,
                   prompt, reply, response, callKey, result, warnings, trace>>

\* a main that lets an unexpected error end with status 0
MainCaught_OnlyParserError(exc) == IF exc = "BankParserError" THEN 1 ELSE 0

\* __main__.py:57-62: the status main exits with on a caught exception
MainCaught(exc) == IF exc = "BankParserError" THEN 1 ELSE 1

\* a pipeline that makes its model call a second time when the first fails
Fails_RetryCall(p, res) ==
    /\ result' = [result EXCEPT ![p] = res]
    /\ IF pc[p] = "generate" /\ Len(trace[p]) < 4
       THEN UNCHANGED <<pc, exitCode>>
       ELSE IF entry[p] = "main"
       THEN /\ pc' = [pc EXCEPT ![p] = "exited"]
            /\ exitCode' = [exitCode EXCEPT ![p] = MainCaught(res.exc)]
       ELSE /\ pc' = [pc EXCEPT ![p] = "raised"]
            /\ UNCHANGED exitCode

\* An exception leaves the operation: to the caller, or to main's handlers
Fails(p, res) ==
    /\ result' = [result EXCEPT ![p] = res]
    /\ IF entry[p] = "main"
       THEN /\ pc' = [pc EXCEPT ![p] = "exited"]
            /\ exitCode' = [exitCode EXCEPT ![p] = MainCaught(res.exc)]
       ELSE /\ pc' = [pc EXCEPT ![p] = "raised"]
            /\ UNCHANGED exitCode

\* GeminiBankParser.__init__, parser.py:66-76; genai.configure stores the key
\* process-wide and, like GenerativeModel(), contacts no service
Construct(p) ==
    /\ pc[p] = "init"
    /\ trace' = [trace EXCEPT ![p] = Append(@, "init")]
    /\ LET o == ConstructorOutcome(GEMINI_AVAILABLE, args[p].api_key, envKey)
       IN  IF o.exc = ""
           THEN /\ genaiKey' = o.key
                /\ parserKey' = [parserKey EXCEPT ![p] = o.key]
                /\ pc' = [pc EXCEPT ![p] = "extract"]
                /\ UNCHANGED <<result, exitCode>>
           ELSE /\ Fails(p, Raised(o.exc, ""))
                /\ UNCHANGED <<genaiKey, parserKey>>
    /\ UNCHANGED <<globals, outputs, entry, args, content, prompt, reply, response,
                   callKey, warnings>>

\* extract_content, called by parse_statement (whose handler wraps what it
\* raises, parser.py:145-146) or directly
ExtractContent(p) ==
    /\ pc[p] = "extract"
    /\ trace' = [trace EXCEPT ![p] = Append(@, "extract")]
    /\ LET o      == extract_content(PDFPLUMBER_AVAILABLE, args[p].pdf_file, pdfPages)
           direct == entry[p] = "extract_content"
       IN  IF o.exc = ""
           THEN /\ content' = [content EXCEPT ![p] = o.value]
                /\ pc' = [pc EXCEPT ![p] = IF direct THEN "returned" ELSE "prompt"]
                /\ result' = [result EXCEPT ![p] = IF direct THEN Return(<<>>) ELSE @]
                /\ UNCHANGED exitCode
           ELSE /\ Fails(p, IF direct THEN Raised(o.exc, o.cause)
                            ELSE Raised("BankParserError", o.exc))
                /\ UNCHANGED content
    /\ UNCHANGED <<globals, outputs, genaiKey, entry, args, parserKey, prompt,
                   reply, response, callKey, warnings>>

\* prompt = self._create_prompt(content), parser.py:114
CreatePrompt(p) ==
    /\ pc[p] = "prompt"
    /\ trace' = [trace EXCEPT ![p] = Append(@, "prompt")]
    /\ prompt' = [prompt EXCEPT ![p] = create_prompt(content[p])]
    /\ pc' = [pc EXCEPT ![p] = "generate"]
    /\ UNCHANGED <<globals, outputs, genaiKey, entry, args, parserKey, content,
                   reply, response, callKey, result, warnings, exitCode>>

\* response = self.model.generate_content(prompt); response.text, parser.py:
\* 116-117: the service answers, or the call (or reading .text) raises. The
\* model object was built without a key (parser.py:76), so the call is made
\* with the key genai.configure stored last
GenerateContent(p) ==
    /\ pc[p] = "generate"
    /\ trace' = [trace EXCEPT ![p] = Append(@, "generate")]
    /\ callKey' = [callKey EXCEPT ![p] = genaiKey]
    /\ \/ \E r \in PipelineReplies :
            /\ reply' = [reply EXCEPT ![p] = r]
            /\ response' = [response EXCEPT ![p] = Text(r)]
            /\ pc' = [pc EXCEPT ![p] = "parse"]
            /\ UNCHANGED <<result, exitCode>>
       \/ /\ Fails(p, Raised("BankParserError", "GoogleAPIError"))
          /\ UNCHANGED <<reply, response>>
    /\ UNCHANGED <<globals, outputs, genaiKey, entry, args, parserKey, content,
                   prompt, warnings>>

\* parser.py:119-146: the response is decoded and coerced
ParseResponse(p) ==
    /\ pc[p] = "parse"
    /\ trace' = [trace EXCEPT ![p] = Append(@, "parse")]
    /\ LET o == ParseResponseText(response[p])
       IN  /\ warnings' = [warnings EXCEPT ![p] = @ + o.warned]
           /\ IF o.res.kind = "return"
              THEN /\ result' = [result EXCEPT ![p] = o.res]
                   /\ pc' = [pc EXCEPT ![p] = IF entry[p] = "main" THEN "print"
                                              ELSE "returned"]
                   /\ UNCHANGED exitCode
              ELSE Fails(p, o.res)
    /\ UNCHANGED <<globals, outputs, genaiKey, entry, args, parserKey, content,
                   prompt, reply, response, callKey>>

\* main prints the rupee sign in the 'dict' format only (json.dumps escapes it)
PrintsRupee(p) ==
    /\ args[p].format = "dict"
    /\ args[p].summary \/ result[p].value # <<>>

\* __main__.py:38-55: main prints the summary or the transactions and
\* returns; a stdout that cannot encode the rupee sign makes print raise
\* UnicodeEncodeError, which `except Exception` catches
MainPrint(p) ==
    /\ pc[p] = "print"
    /\ summary' = IF args[p].summary THEN <<get_summary(result[p].value)>> ELSE summary
    /\ \/ /\ exitCode' = [exitCode EXCEPT ![p] = 0]
          /\ pc' = [pc EXCEPT ![p] = "exited"]
          /\ UNCHANGED result
       \/ /\ PrintsRupee(p)
          /\ Fails(p, Raised("UnicodeEncodeError", ""))
    /\ UNCHANGED <<globals, files, exported, genaiKey, entry, args, parserKey,
                   content, prompt, reply, response, callKey, warnings, trace>>

\* The caller goes on: the invocation's locals are gone
Forget(p) ==
    /\ pc[p] \in {"returned", "raised", "exited"}
    /\ pc' = [pc EXCEPT ![p] = "idle"]
    /\ entry' = [entry EXCEPT ![p] = ""]
    /\ args' = [args EXCEPT ![p] = NoArgs]
    /\ parserKey' = [parserKey EXCEPT ![p] = KeyNone]
    /\ content' = [content EXCEPT ![p] = NoContent]
    /\ prompt' = [prompt EXCEPT ![p] = NoPrompt]
    /\ reply' = [reply EXCEPT ![p] = NoReply]
    /\ response' = [response EXCEPT ![p] = <<>>]
    /\ callKey' = [callKey EXCEPT ![p] = KeyNone]
    /\ result' = [result EXCEPT ![p] = NoResult]
    /\ warnings' = [warnings EXCEPT ![p] = 0]
    /\ trace' = [trace EXCEPT ![p] = <<>>]
    /\ exitCode' = [exitCode EXCEPT ![p] = -1]
    /\ UNCHANGED <<globals, outputs, genaiKey>>

Next ==
    \E p \in Procs :
        \/ Call(p)
        \/ MainParseArgs(p)
        \/ MainCheckFile(p)
        \/ Construct(p)
        \/ ExtractContent(p)
        \/ CreatePrompt(p)
        \/ GenerateContent(p)
        \/ ParseResponse(p)
        \/ MainPrint(p)
        \/ Forget(p)

Spec == Init /\ [][Next]_vars

-----------------------------------------------------------------------------
(* Calls on a parser that holds a list of transactions *)

\* summary = parser.get_summary(transactions)
GetSummary(p) ==
    /\ pc[p] = "returned"
    /\ entry[p] # "extract_content"
    /\ summary' = <<get_summary(result[p].value)>>
    /\ UNCHANGED <<globals, files, exported, genaiKey, pc, entry, args, parserKey,
                   content, prompt, reply, response, callKey, result, warnings,
                   trace, exitCode>>

Export(op, path, exc, cause) == [op |-> op, path |-> path, exc |-> exc, cause |-> cause]

\* parser.export_to_csv(transactions, output_file): open() creates or
\* truncates the file, or raises and the handler wraps it
ExportToCsv(p) ==
    /\ pc[p] = "returned"
    /\ entry[p] # "extract_content"
    /\ \E path \in OutPaths :
          IF Writable(path)
          THEN /\ files' = [files EXCEPT ![path] = CsvFile(result[p].value)]
               /\ exported' = Export("export_to_csv", path, "", "")
          ELSE /\ exported' = Export("export_to_csv", path, "BankParserError",
                                     "FileNotFoundError")
               /\ UNCHANGED files
    /\ UNCHANGED <<globals, summary, genaiKey, pc, entry, args, parserKey, content,
                   prompt, reply, response, callKey, result, warnings, trace,
                   exitCode>>

\* datetime.now().isoformat()
Clock == {"2024-03-15T10:00:00", "2024-03-15T10:00:01"}

\* parser.export_to_json(transactions, output_file)
ExportToJson(p) ==
    /\ pc[p] = "returned"
    /\ entry[p] # "extract_content"
    /\ \E path \in OutPaths, now \in Clock :
          IF Writable(path)
          THEN /\ files' = [files EXCEPT ![path] = JsonFile(result[p].value, now)]
               /\ exported' = Export("export_to_json", path, "", "")
          ELSE /\ exported' = Export("export_to_json", path, "BankParserError",
                                     "FileNotFoundError")
               /\ UNCHANGED files
    /\ UNCHANGED <<globals, summary, genaiKey, pc, entry, args, parserKey, content,
                   prompt, reply, response, callKey, result, warnings, trace,
                   exitCode>>

-----------------------------------------------------------------------------
(* Specifications of the single operations, over bounded inputs *)

\* process 1 is inside parse_statement of a constructed parser, the others idle
Inside(stage, done) ==
    /\ GEMINI_AVAILABLE = TRUE
    /\ PDFPLUMBER_AVAILABLE = TRUE
    /\ envKey = KeyNone
    /\ genaiKey = "keyA"
    /\ summary = <<>>
    /\ exported = NoExport
    /\ pc = [p \in Procs |-> IF p = 1 THEN stage ELSE "idle"]
    /\ entry = [p \in Procs |-> IF p = 1 THEN "parse_statement" ELSE ""]
    /\ args = [p \in Procs |-> IF p = 1 THEN [NoArgs EXCEPT !.pdf_file = "stmt.pdf",
                                                            !.api_key = "keyA"]
                               ELSE NoArgs]
    /\ parserKey = [p \in Procs |-> IF p = 1 THEN "keyA" ELSE KeyNone]
    /\ trace = [p \in Procs |-> IF p = 1 THEN done ELSE <<>>]
    /\ warnings = [p \in Procs |-> 0]
    /\ exitCode = [p \in Procs |-> -1]

\* parse_statement has the model's response in hand
InitParse ==
    /\ Inside("parse", <<"init", "extract", "prompt", "generate">>)
    /\ pdfPages = StmtPages
    /\ content = [p \in Procs |-> IF p = 1 THEN ExtractPages(StmtPages, 1, <<>>, <<>>)
                                  ELSE NoContent]
    /\ prompt = [p \in Procs |-> IF p = 1 THEN create_prompt(content[1]) ELSE NoPrompt]
    /\ callKey = [p \in Procs |-> IF p = 1 THEN "keyA" ELSE KeyNone]
    /\ files = [path \in OutPaths |-> NoFile]
    /\ result = [p \in Procs |-> NoResult]
    /\ \E l \in ProseSeqs, es \in ElementSeqs, t \in ProseSeqs,
          sh \in {"array", "cut", "bare"} :
          /\ sh # "array" => (l = <<>> /\ t = <<>>)
          /\ reply = [p \in Procs |-> IF p = 1 THEN Reply(l, es, t, sh) ELSE NoReply]
          /\ response = [p \in Procs |-> IF p = 1 THEN Text(Reply(l, es, t, sh))
                                         ELSE <<>>]

NextParse == \E p \in Procs : ParseResponse(p)

SpecParse == InitParse /\ [][NextParse]_vars

Letters == <<"a", "b", "c">>

\* a page text of n characters
MakeText(n, off) == [i \in 1..n |-> Letters[((i + off) % 3) + 1]]

\* page-text lengths around the prompt's cutoff (the extraction adds "\n")
TextLens == (0..MaxExtra) \cup ((TextLimit - 1 - MaxExtra)..(TextLimit - 1 + MaxExtra))

GridSeqs(grids, n) == UNION {[1..k -> grids] : k \in 0..n}

\* parse_statement is about to extract a two-page document
InitPrompt ==
    /\ Inside("extract", <<"init">>)
    /\ content = [p \in Procs |-> NoContent]
    /\ prompt = [p \in Procs |-> NoPrompt]
    /\ reply = [p \in Procs |-> NoReply]
    /\ response = [p \in Procs |-> <<>>]
    /\ callKey = [p \in Procs |-> KeyNone]
    /\ files = [path \in OutPaths |-> NoFile]
    /\ result = [p \in Procs |-> NoResult]
    /\ \E n \in TextLens, off \in {0, 1}, g1 \in GridSeqs({GridA, GridB}, MaxTables),
          g2 \in GridSeqs({GridA}, 1) :
          /\ Len(g1) + Len(g2) <= MaxTables
          /\ pdfPages = << [text |-> MakeText(n, off), tables |-> g1],
                        [text |-> <<>>, tables |-> g2] >>

NextPrompt == \E p \in Procs : ExtractContent(p) \/ CreatePrompt(p)

SpecPrompt == InitPrompt /\ [][NextPrompt]_vars

T1 == Transaction(JStr(<<"1">>), JStr(<<"a">>), 5, JStr(S_DR), JNum(7),
                  JStr(<<"r">>), PyNone, PyNone, PyNone)

T2 == Transaction(JStr(<<"2">>), JStr(<<"b">>), 12, JStr(S_CR), PyNone,
                  PyNone, JStr(<<"2">>), PyNone, JNum(42))

T3 == Transaction(JStr(<<"3">>), JStr(<<>>), 0 - 3, JStr(S_DEBIT), JNum(0 - 1),
                  PyNone, PyNone, JStr(<<"n">>), PyNone)

T4 == Transaction(JStr(<<"4">>), JStr(<<"d">>), 4, JStr(S_CREDIT), PyNone,
                  PyNone, PyNone, PyNone, PyNone)

T5 == Transaction(JStr(<<"5">>), JStr(<<"e">>), 2, JStr(S_dr), PyNone,
                  PyNone, PyNone, PyNone, PyNone)

T6 == Transaction(JStr(<<>>), JStr(<<"f">>), 9, JStr(S_UPI), JNum(10),
                  PyNone, PyNone, PyNone, PyNone)

TxnSamples == {T1, T2, T3, T4, T5, T6}

TxnLists == UNION {[1..n -> TxnSamples] : n \in 0..MaxTxns}

\* a parser has returned a list of transactions; out.dat may exist already
InitExport ==
    /\ Inside("returned", <<"init", "extract", "prompt", "generate", "parse">>)
    /\ pdfPages = StmtPages
    /\ content = [p \in Procs |-> NoContent]
    /\ prompt = [p \in Procs |-> NoPrompt]
    /\ reply = [p \in Procs |-> NoReply]
    /\ response = [p \in Procs |-> <<>>]
    /\ callKey = [p \in Procs |-> IF p = 1 THEN "keyA" ELSE KeyNone]
    /\ \E old \in {NoFile, CsvFile(<<T1, T2>>)} :
          files = [path \in OutPaths |-> IF Writable(path) THEN old ELSE NoFile]
    /\ \E txns \in TxnLists :
          result = [p \in Procs |-> IF p = 1 THEN Return(txns) ELSE NoResult]

NextExport == \E p \in Procs : GetSummary(p) \/ ExportToCsv(p) \/ ExportToJson(p)

SpecExport == InitExport /\ [][NextExport]_vars

\* parse_bank_statement(pdf_path, api_key) is called while another
\* invocation may be under way (one thread per statement)
StartPipeline(p) ==
    /\ pc[p] = "idle"
    /\ \E path \in Paths, k \in PipelineKeys :
          /\ entry' = [entry EXCEPT ![p] = "parse_bank_statement"]
          /\ args' = [args EXCEPT ![p] = [NoArgs EXCEPT !.pdf_file = path,
                                                        !.api_key = k]]
          /\ pc' = [pc EXCEPT ![p] = "init"]
    /\ UNCHANGED <<globals, outputs, genaiKey, parserKey, content, prompt, reply,
                   response, callKey, result, warnings, trace, exitCode>>

\* both libraries are installed
InitConcurrent ==
    /\ InitGlobals
    /\ GEMINI_AVAILABLE /\ PDFPLUMBER_AVAILABLE
    /\ InitLocals

\* the steps of the invocations interleave in any order
NextConcurrent ==
    \E p \in Procs :
        \/ StartPipeline(p)
        \/ Construct(p)
        \/ ExtractContent(p)
        \/ CreatePrompt(p)
        \/ GenerateContent(p)
        \/ ParseResponse(p)
        \/ Forget(p)

SpecConcurrent == InitConcurrent /\ [][NextConcurrent]_vars

-----------------------------------------------------------------------------
(* The claims *)

\* parse_statement has ended for p, by a return or by an exception
Ended(p) == pc[p] \in {"returned", "raised"}

\* the model's reply is exactly a JSON array, and parse_statement has ended
ArrayParsed(p) ==
    /\ Ended(p)
    /\ reply[p].shape = "array"
    /\ reply[p].lead = <<>>
    /\ reply[p].trail = <<>>

\* the elements of a reply whose coercion into a Transaction raises nothing
Coercible(es) == {i \in 1..Len(es) : BuildTransaction(es[i]).exc = ""}

\* the order-preserving subsequence of es at the indices in S
RECURSIVE Pick(_, _, _)
Pick(es, S, i) ==
    IF i > Len(es) THEN <<>>
    ELSE (IF i \in S THEN <<es[i]>> ELSE <<>>) \o Pick(es, S, i + 1)

\* C1: whenever the response is a JSON array, parse_statement does not fail:
\* every element whose coercion raises (a type error such as amount = null,
\* or an element that is no object, included) is skipped with a warning and
\* every other element contributes a Transaction.
C1_EveryBadElementSkipped ==
    \A p \in Procs :
        ArrayParsed(p) =>
            /\ result[p].kind = "return"
            /\ Len(result[p].value) = Cardinality(Coercible(reply[p].elements))
            /\ warnings[p] = Len(reply[p].elements) - Len(result[p].value)

\* every element of the array is an object
AllObjects(es) == \A i \in 1..Len(es) : es[i].t = "obj"

\* C2: for an array of objects, some with an amount or balance that cannot be
\* converted to a number, parse_statement returns one Transaction per
\* convertible element, in the order of the array.
C2_ConvertibleSubsequence ==
    \A p \in Procs :
        (ArrayParsed(p) /\ AllObjects(reply[p].elements)) =>
            /\ result[p].kind = "return"
            /\ LET kept == Pick(reply[p].elements, Coercible(reply[p].elements), 1)
               IN  result[p].value = [i \in 1..Len(kept) |-> BuildTransaction(kept[i]).val]

\* no element raises anything but ValueError
OnlyValueErrors(es) ==
    \A i \in 1..Len(es) : BuildTransaction(es[i]).exc \in {"", "ValueError"}

\* What does hold of the loop: when the only failures are ValueErrors (an
\* amount or balance string that is no number), parse_statement returns the
\* Transactions of the other elements in the order of the array and warns
\* once per skipped element.
ValueErrorsSkippedInOrder ==
    \A p \in Procs :
        (ArrayParsed(p) /\ OnlyValueErrors(reply[p].elements)) =>
            /\ result[p].kind = "return"
            /\ LET kept == Pick(reply[p].elements, Coercible(reply[p].elements), 1)
               IN  result[p].value = [i \in 1..Len(kept) |-> BuildTransaction(kept[i]).val]
            /\ warnings[p] = Len(reply[p].elements) - Len(result[p].value)

\* the reply is prose, a JSON array, prose, and parse_statement has ended
FramedParsed(p) == Ended(p) /\ reply[p].shape = "array"

\* what parse_statement gives for the bare array of the reply
OfArrayAlone(p) == ParseResponseText(json_dumps(reply[p].elements))

Holds(toks, tok) == \E i \in 1..Len(toks) : toks[i] = tok

\* C3 as stated: whatever prose surrounds the array, brackets included, the
\* outcome is that of the array alone.
C3_AnyProseIgnored ==
    \A p \in Procs :
        FramedParsed(p) =>
            /\ result[p] = OfArrayAlone(p).res
            /\ warnings[p] = OfArrayAlone(p).warned

\* C3, amended: when the leading prose holds no '[' and the trailing prose no
\* ']', the outcome is that of the array alone (the match runs from the first
\* '[' to the last ']' of the whole text).
C3_ProseWithoutBracketsIgnored ==
    \A p \in Procs :
        (FramedParsed(p) /\ ~Holds(reply[p].lead, LB) /\ ~Holds(reply[p].trail, RB)) =>
            /\ result[p] = OfArrayAlone(p).res
            /\ warnings[p] = OfArrayAlone(p).warned

\* prose on both sides, a ']' before the array, and two transactions returned
C3_Witness ==
    \E p \in Procs :
        /\ FramedParsed(p)
        /\ reply[p].lead = <<WORD, RB>>
        /\ reply[p].trail = <<WORD>>
        /\ result[p].kind = "return"
        /\ Len(result[p].value) = 2
        /\ warnings[p] = 1

\* C4: parse_statement on a path that does not exist, by a parser that was
\* constructed, raises FileNotFoundError, and the model is never called.
C4_NotFoundRaised ==
    \A p \in Procs :
        (/\ entry[p] = "parse_bank_statement"
         /\ pc[p] = "raised"
         /\ parserKey[p] # KeyNone
         /\ PDFPLUMBER_AVAILABLE
         /\ ~Exists(args[p].pdf_file)) =>
            /\ result[p].exc = "FileNotFoundError"
            /\ \A i \in 1..Len(trace[p]) : trace[p][i] # "generate"

\* C5: whatever a public operation raises is a BankParserError.
C5_OnlyBankParserError ==
    \A p \in Procs : pc[p] = "raised" => result[p].exc = "BankParserError"

-----------------------------------------------------------------------------

\* the sum of f over the indices in S
RECURSIVE SumOver(_, _)
SumOver(f, S) ==
    IF S = {} THEN 0
    ELSE LET i == CHOOSE j \in S : TRUE IN f[i] + SumOver(f, S \ {i})

\* the list get_summary was called with
Summarised(p) == result[p].value

IsDebit(txn) ==
    txn.transaction_type = JStr(<<"D", "R">>)
    \/ txn.transaction_type = JStr(<<"D", "E", "B", "I", "T">>)

IsCredit(txn) ==
    txn.transaction_type = JStr(<<"C", "R">>)
    \/ txn.transaction_type = JStr(<<"C", "R", "E", "D", "I", "T">>)

\* C6: get_summary counts every record, adds the amounts of the records typed
\* exactly DR or DEBIT into total_debit and of those typed exactly CR or
\* CREDIT into total_credit, and net_amount is their difference; the empty
\* list gives four zeros.
C6_SummaryTotals ==
    \A p \in Procs :
        (pc[p] = "returned" /\ entry[p] = "parse_statement" /\ summary # <<>>) =>
            LET txns    == Summarised(p)
                amounts == [i \in 1..Len(txns) |-> txns[i].amount]
                debit   == SumOver(amounts, {i \in 1..Len(txns) : IsDebit(txns[i])})
                credit  == SumOver(amounts, {i \in 1..Len(txns) : IsCredit(txns[i])})
            IN  /\ summary[1].total_transactions = Len(txns)
                /\ summary[1].total_debit = debit
                /\ summary[1].total_credit = credit
                /\ summary[1].net_amount = credit - debit
                /\ txns = <<>> => summary[1] = [total_transactions |-> 0,
                                                total_debit |-> 0, total_credit |-> 0,
                                                net_amount |-> 0]

\* a summary of three records, one of them typed "dr", which is only counted
C6_Witness ==
    \E p \in Procs :
        /\ pc[p] = "returned"
        /\ summary # <<>>
        /\ Summarised(p) = <<T1, T5, T2>>
        /\ summary[1] = [total_transactions |-> 3, total_debit |-> 5,
                         total_credit |-> 12, net_amount |-> 7]

\* the last call was a successful export_to_csv of p's list
CsvExported(p) ==
    /\ pc[p] = "returned"
    /\ entry[p] = "parse_statement"
    /\ exported.op = "export_to_csv"
    /\ exported.exc = ""

\* C7: export_to_csv leaves, for the empty list, an existing file with no row
\* at all, and for n >= 1 transactions the header row (the nine columns in
\* their order) followed by n data rows in list order, an absent optional
\* field written as the empty string.
C7_CsvFileContents ==
    \A p \in Procs :
        CsvExported(p) =>
            LET txns == result[p].value
                file == files[exported.path]
                cols == <<"date", "particulars", "amount", "transaction_type",
                          "balance", "reference_no", "value_date", "narration",
                          "cheque_no">>
            IN  /\ file.exists
                /\ txns = <<>> => file.rows = <<>>
                /\ txns # <<>> =>
                      /\ Len(file.rows) = Len(txns) + 1
                      /\ file.rows[1] = cols
                      /\ \A i \in 1..Len(txns) :
                            /\ Len(file.rows[i + 1]) = 9
                            /\ file.rows[i + 1][1] = txns[i].date.s
                            /\ file.rows[i + 1][2] = txns[i].particulars.s
                            /\ file.rows[i + 1][4] = txns[i].transaction_type.s
                            /\ \A j \in 5..9 :
                                  txns[i][cols[j]] = PyNone => file.rows[i + 1][j] = <<>>

\* an export of an empty list: the file exists and holds no row
C7_Witness ==
    \E p \in Procs :
        /\ CsvExported(p)
        /\ result[p].value = <<>>
        /\ files[exported.path].exists
        /\ files[exported.path].rows = <<>>

\* an export of three transactions: four rows, the second one's balance empty
C7_WitnessRows ==
    \E p \in Procs :
        /\ CsvExported(p)
        /\ result[p].value = <<T1, T2, T3>>
        /\ Len(files[exported.path].rows) = 4
        /\ files[exported.path].rows[3][5] = <<>>
        /\ files[exported.path].rows[2][3] = <<"5", ".", "0">>

-----------------------------------------------------------------------------

Min(a, b) == IF a <= b THEN a ELSE b

\* _create_prompt has run for p
Prompted(p) == pc[p] = "generate"

\* C8: the text embedded in the prompt is the first 8000 characters of the
\* extracted text (all of it when shorter); the tables embedded are the first
\* 3 entries of the table list in their order (all of them when fewer), or
\* the literal 'No tables found' when there are none.
C8_PromptTruncation ==
    \A p \in Procs :
        Prompted(p) =>
            LET text   == content[p].text
                tables == content[p].tables
                n      == Min(Len(tables), 3)
            IN  /\ Len(prompt[p].text) = Min(Len(text), 8000)
                /\ \A i \in 1..Len(prompt[p].text) : prompt[p].text[i] = text[i]
                /\ tables = <<>> => prompt[p].tables = <<WORD, WORD, WORD>>
                /\ tables # <<>> =>
                      json_loads(prompt[p].tables) = Ok(JArr([i \in 1..n |-> tables[i]]))

\* a prompt built from more than 8000 characters and more than 3 tables
C8_Witness ==
    \E p \in Procs :
        /\ Prompted(p)
        /\ Len(content[p].text) > TextLimit
        /\ Len(content[p].tables) > TableLimit
        /\ Len(prompt[p].text) = TextLimit

\* main has left for p
Exited(p) == entry[p] = "main" /\ pc[p] = "exited"

\* main caught an error: the file is missing, or an exception was raised
ErrorCaught(p) == ~Exists(args[p].pdf_file) \/ result[p].kind = "raise"

\* C9 as stated: main exits with 1 whenever an error is caught and with 0
\* otherwise, and a missing file ends it before any construction.
C9_ExitOneOrZero ==
    \A p \in Procs :
        Exited(p) =>
            /\ exitCode[p] = (IF ErrorCaught(p) THEN 1 ELSE 0)
            /\ ~Exists(args[p].pdf_file) => trace[p] = <<>>

\* C9, amended: a command line argparse rejects ends main with status 2;
\* once the command line is accepted, main exits with 1 whenever an error is
\* caught and with 0 otherwise, and a missing file ends it before any
\* construction or model call.
C9_ExitCodes ==
    \A p \in Procs :
        Exited(p) =>
            /\ ~args[p].argv_ok => exitCode[p] = 2
            /\ args[p].argv_ok => exitCode[p] = (IF ErrorCaught(p) THEN 1 ELSE 0)
            /\ ~Exists(args[p].pdf_file) => trace[p] = <<>>

\* main ends with status 1 on the constructor's missing-credential error
C9_Witness ==
    \E p \in Procs :
        /\ Exited(p)
        /\ args[p].argv_ok
        /\ Exists(args[p].pdf_file)
        /\ result[p].exc = "ValueError"
        /\ exitCode[p] = 1

\* the constructor, and nothing else, has run for p
JustConstructed(p) == trace[p] = <<"init">> /\ pc[p] \in {"extract", "raised", "exited"}

ConstructionFailed(p) == pc[p] \in {"raised", "exited"}

NoCredential(p) == args[p].api_key \in {KeyNone, ""} /\ envKey \in {KeyNone, ""}

\* the key the parser is to use: the argument, the environment as fallback
ExpectedKey(p) == IF args[p].api_key \in {KeyNone, ""} THEN envKey ELSE args[p].api_key

\* C10 as stated: construction fails exactly when no credential is
\* available; otherwise it succeeds with the explicit argument, or the
\* environment variable as fallback.
C10_FailsOnlyWithoutCredential ==
    \A p \in Procs :
        JustConstructed(p) =>
            /\ ConstructionFailed(p) <=> NoCredential(p)
            /\ ~ConstructionFailed(p) => parserKey[p] = ExpectedKey(p)

\* C10, amended: when the google-generativeai library is importable,
\* construction fails (ValueError) exactly when no credential is available
\* and otherwise succeeds with the explicit argument, or the environment
\* variable as fallback, handed to genai.configure; when the library is
\* missing it fails with ImportError whatever the credential.
C10_ConstructionOutcome ==
    \A p \in Procs :
        JustConstructed(p) =>
            /\ GEMINI_AVAILABLE =>
                  /\ ConstructionFailed(p) <=> NoCredential(p)
                  /\ ConstructionFailed(p) => result[p].exc = "ValueError"
            /\ ~GEMINI_AVAILABLE =>
                  ConstructionFailed(p) /\ result[p].exc = "ImportError"
            /\ ~ConstructionFailed(p) =>
                  /\ parserKey[p] = ExpectedKey(p)
                  /\ genaiKey = ExpectedKey(p)
                  /\ callKey[p] = KeyNone

\* a parser constructed with an explicit key although the environment has one
C10_Witness ==
    \E p \in Procs :
        /\ JustConstructed(p)
        /\ pc[p] = "extract"
        /\ args[p].api_key = "keyA"
        /\ envKey = "keyE"
        /\ parserKey[p] = "keyA"

-----------------------------------------------------------------------------
(* Interleaved invocations *)

\* p's model call has been made
Called(p) == \E i \in 1..Len(trace[p]) : trace[p][i] = "generate"

\* C11: when two pipeline invocations interleave, the credential in effect
\* for each invocation's model call is the one its own parser was constructed
\* with, whatever the other's constructor (which calls genai.configure) did.
C11_CallUsesOwnCredential ==
    \A p \in Procs : Called(p) => callKey[p] = parserKey[p]

-----------------------------------------------------------------------------
(* The Transactions parse_statement returns *)

\* parse_statement has returned a list
Returned(p) == Ended(p) /\ result[p].kind = "return"

\* C12: every Transaction in a list returned by parse_statement has an
\* amount that is present and is a non-negative number, whatever the model
\* returned.
C12_AmountNonNegative ==
    \A p \in Procs :
        Returned(p) =>
            \A i \in 1..Len(result[p].value) :
                /\ result[p].value[i].amount \in Int
                /\ result[p].value[i].amount >= 0

-----------------------------------------------------------------------------
(* The order of the stages *)

\* the constructor, then the four stages of parse_statement
Stages == <<"init", "extract", "prompt", "generate", "parse">>

IsPrefix(s, t) == Len(s) <= Len(t) /\ SubSeq(t, 1, Len(s)) = s

\* what p last did raised an exception
Failed(p) == pc[p] \in {"raised", "exited"} /\ result[p].kind = "raise"

\* the stage p is about to run is the one after those it has run
AtNextStage(p) ==
    pc[p] \in {"init", "extract", "prompt", "generate", "parse"} =>
        pc[p] = Stages[Len(trace[p]) + 1]

\* C13: within one invocation the stages run strictly in the order content
\* extraction, prompt building, model call, response parsing, each at most
\* once (so the model is called at most once: no retry); and once a stage has
\* failed no later stage of that invocation runs.
C13_StagesInOrder ==
    /\ [](\A p \in Procs : IsPrefix(trace[p], Stages) /\ AtNextStage(p))
    /\ [][\A p \in Procs : Failed(p) => trace'[p] \in {trace[p], <<>>}]_vars

\* the model call failed: no response was parsed and the call was not repeated
C13_Witness ==
    \E p \in Procs :
        /\ pc[p] = "raised"
        /\ result[p].cause = "GoogleAPIError"
        /\ trace[p] = <<"init", "extract", "prompt", "generate">>

-----------------------------------------------------------------------------
(* The fields of a built Transaction *)

\* the element has no such key
Missing(e, k) == e.f[k] = Absent

\* the element's value under k, or dflt when the key is missing
ValueOr(e, k, dflt) == IF Missing(e, k) THEN dflt ELSE e.f[k]

\* every element of the array became a Transaction
AllBuilt(p) ==
    /\ ArrayParsed(p)
    /\ result[p].kind = "return"
    /\ Len(result[p].value) = Len(reply[p].elements)
    /\ AllObjects(reply[p].elements)

\* the Transaction txn is built from the object e as C14 says
BuiltFrom(txn, e) ==
    /\ txn.date = ValueOr(e, "date", JStr(<<>>))
    /\ txn.particulars = ValueOr(e, "particulars", JStr(<<>>))
    /\ txn.transaction_type = ValueOr(e, "transaction_type", JStr(S_DR))
    /\ txn.amount = IF Missing(e, "amount") THEN 0 ELSE PyFloat(e.f.amount).val
    /\ txn.balance = IF ~Missing(e, "balance") /\ Truthy(e.f.balance)
                     THEN JNum(PyFloat(e.f.balance).val)
                     ELSE PyNone
    /\ \A k \in {"reference_no", "value_date", "narration", "cheque_no"} :
          txn[k] = ValueOr(e, k, PyNone)

\* C14: the Transaction built from an object has date, particulars and
\* transaction_type of the element or "", "" and "DR" when the key is missing,
\* amount its numeric value or 0.0 when missing, balance its numeric value
\* when present and truthy and None otherwise (so None for 0 and for ""),
\* and reference_no, value_date, narration, cheque_no unchanged or None.
C14_FieldsOfBuiltTransaction ==
    \A p \in Procs :
        AllBuilt(p) =>
            \A i \in 1..Len(reply[p].elements) :
                BuiltFrom(result[p].value[i], reply[p].elements[i])

\* Transactions were built from an element with balance 0 and from {}
C14_Witness ==
    \E p \in Procs :
        /\ AllBuilt(p)
        /\ reply[p].elements = <<E2, E9>>
        /\ result[p].value[1].balance = PyNone
        /\ result[p].value[2].amount = 0
        /\ result[p].value[2].transaction_type = JStr(S_DR)

====
